---- MODULE Spec2Model ----
(***************************************************************************)
(* A model of scripts/validate-build.ts: one run of validateBuild(config)  *)
(* against a package directory and its package.json.                       *)
(*                                                                         *)
(* Paths are sequences of segments and a segment is a sequence of tokens,  *)
(* the token "." being the dot character: "sub/core.cjs.map" is            *)
(* << <<"sub">>, <<"core",".","cjs",".","map">> >>.  Absolute paths start  *)
(* at the root, so pkgDir "/pkg" is << <<"pkg">> >>.                       *)
(***************************************************************************)
EXTENDS Naturals, Sequences, FiniteSets

VARIABLES
  config,         \* BuildConfig: [esmNode]
  tsconfig,       \* the compiler options of <rootDir>/tsconfig.json
  disk,           \* the file system: absolute path -> [kind, content]
  manifest,       \* the object the text of package.json parses to
  pc,             \* position of validateBuild
  outcome,        \* "running", "returned", "exit1" (process.exit(1)), "rejected" (throws)
  expectedFiles,  \* line 18
  idx,            \* position of the for loop of line 20 (1-based)
  applied,        \* the per-file checks performed so far, in order
  inflight,       \* validatePath calls whose access() has not settled
  accessed,       \* the paths validatePath was called with, in call order
  allFiles,       \* line 59
  stderr,         \* what console.error printed, one record per error block
  stdout          \* what console.log printed

vars == <<config, tsconfig, disk, manifest, pc, outcome, expectedFiles, idx, applied,
          inflight, accessed, allFiles, stderr, stdout>>

\* ------------------------------------------------------------------ bounds

MaxFiles == 2     \* longest `files` list of the file-validation inputs
MaxExports == 2   \* most keys of `exports` of the entry-point inputs

\* ------------------------------------------------------------------- paths

pkgDir == << <<"pkg">> >>

segPackageJson == <<"package", ".", "json">>
segSub == <<"sub">>

\* names as a manifest writes them (relative to pkgDir)
nPkg == << segPackageJson >>
nCjs == << <<"core", ".", "cjs">> >>
nMjs == << <<".">>, <<"core", ".", "mjs">> >>           \* "./core.mjs"
nDts == << <<"core", ".", "d", ".", "ts">> >>
nXyz == << <<"notes", ".", "xyz">> >>
nMap == << segSub, <<"core", ".", "cjs", ".", "map">> >>
nTmp == << <<"build", ".", "tmp">> >>
nSock == << segSub, <<"sock">> >>
nLog == << segSub, <<".", "log">> >>                    \* "sub/.log"

\* path.join of node: concatenates, drops "." segments, resolves ".."
RECURSIVE normalize(_, _)
normalize(p, acc) ==
  IF p = <<>> THEN acc
  ELSE IF Head(p) = <<".">> THEN normalize(Tail(p), acc)
  ELSE IF Head(p) = <<".", ".">>
    THEN normalize(Tail(p), IF acc = <<>> THEN acc ELSE SubSeq(acc, 1, Len(acc) - 1))
  ELSE normalize(Tail(p), Append(acc, Head(p)))

join(a, b) == normalize(a \o b, <<>>)

\* index of the last "." token of a segment, 0 when there is none
RECURSIVE lastDot(_, _)
lastDot(seg, i) ==
  IF i = 0 THEN 0 ELSE IF seg[i] = "." THEN i ELSE lastDot(seg, i - 1)

\* path.extname of node on the last segment: from the last dot on; "" (<<>>)
\* when there is no dot, the only dot leads the name, or the name is ".."
extname(p) ==
  LET seg == p[Len(p)]
      i == lastDot(seg, Len(seg))
  IN IF i <= 1 \/ seg = <<".", ".">> THEN <<>> ELSE SubSeq(seg, i, Len(seg))

isPrefix(a, b) == Len(a) <= Len(b) /\ SubSeq(b, 1, Len(a)) = a

Range(s) == {s[i] : i \in DOMAIN s}

\* -------------------------------------------------------------- file system

None == [kind |-> "none", content |-> ""]
Dir == [kind |-> "dir", content |-> ""]
Other == [kind |-> "other", content |-> ""]   \* a socket: neither file nor directory
File(c) == [kind |-> "file", content |-> c]

subPath == join(pkgDir, << segSub >>)

\* every path a modelled file system can hold, in the order readdirSync lists them
DiskOrder ==
  << pkgDir, join(pkgDir, nTmp), join(pkgDir, nCjs), join(pkgDir, nDts),
     join(pkgDir, nMjs), join(pkgDir, nXyz), join(pkgDir, nPkg), subPath,
     join(pkgDir, nLog), join(pkgDir, nMap), join(pkgDir, nSock) >>

DiskPaths == Range(DiskOrder)

entryAt(d, p) == IF p \in DOMAIN d THEN d[p] ELSE None
kindOf(d, p) == entryAt(d, p).kind

\* the children of a directory, as readdirSync returns them (joined, line 62)
readdirSync(d, dir) ==
  SelectSeq(DiskOrder,
            LAMBDA p : Len(p) = Len(dir) + 1 /\ isPrefix(dir, p) /\ kindOf(d, p) # "none")

\* getFiles (lines 60-73) as a depth-first walk over a work list: a directory
\* is replaced by its children, a file is collected, anything else throws.
\* The variant leaves out the throw of line 70.
RECURSIVE walkSkipOther(_, _, _)
walkSkipOther(d, todo, acc) ==
  IF todo = <<>> THEN [threw |-> FALSE, files |-> acc]
  ELSE LET p == Head(todo) IN
    IF kindOf(d, p) = "dir" THEN walkSkipOther(d, readdirSync(d, p) \o Tail(todo), acc)
    ELSE IF kindOf(d, p) = "file" THEN walkSkipOther(d, Tail(todo), Append(acc, p))
    ELSE walkSkipOther(d, Tail(todo), acc)

RECURSIVE walk(_, _, _)
walk(d, todo, acc) ==
  IF todo = <<>> THEN [threw |-> FALSE, files |-> acc]
  ELSE LET p == Head(todo) IN
    IF kindOf(d, p) = "dir" THEN walk(d, readdirSync(d, p) \o Tail(todo), acc)
    ELSE IF kindOf(d, p) = "file" THEN walk(d, Tail(todo), Append(acc, p))
    ELSE [threw |-> TRUE, files |-> acc]

getFiles(d, dir) == walk(d, readdirSync(d, dir), <<>>)

\* ---------------------------------------------------------------- contents
\* File contents are texts; what each library call makes of a text:
\*   ""  "   "   empty and whitespace-only
\*   "{}"        valid JSON; as code an empty block statement
\*   "{"         malformed JSON; as code a syntax error
\*   "ok"        not JSON; as code a reference to an undefined name, which
\*               throws at load
\*   "{pkg}"     the text of a well-formed package.json; as code a syntax error

trimIsEmpty(c) == c \in {"", "   "}               \* content.trim() === ''
jsonParses(c) == c \in {"{}", "{pkg}"}            \* JSON.parse does not throw
loads(c) == c \in {"", "   ", "{}"}               \* require / import does not throw

\* What the compiler reports for a root file it could read (line 108).
syntaxError(c) == c \in {"{", "{pkg}"}            \* the text does not parse
isStatement(c) == c \in {"{}", "ok"}              \* the text is a statement
undefinedName(c) == c = "ok"                      \* the text names nothing declared

\* the root is a declaration file: its name ends in .d.ts
isDeclarationFile(p) ==
  LET seg == p[Len(p)] IN
  Len(seg) >= 4 /\ SubSeq(seg, Len(seg) - 3, Len(seg)) = <<".", "d", ".", "ts">>

\* tsDiagnostics.length > 0 (lines 108-110) for a readable root p of text c:
\*  - a .mjs root is a source file only under allowJs (otherwise its
\*    unsupported extension is a global diagnostic, which line 108 does not
\*    collect); it then has its syntax errors, and its semantic ones only
\*    under checkJs;
\*  - a declaration file has its syntax errors always, and the semantic ones
\*    (a statement in an ambient context) unless skipLibCheck;
\*  - any other .ts root has its syntax and semantic errors.
hasDiagnostics(p, c) ==
  IF extname(p) = <<".", "mjs">>
    THEN tsconfig.allowJs /\ (syntaxError(c) \/ (tsconfig.checkJs /\ undefinedName(c)))
  ELSE IF isDeclarationFile(p)
    THEN syntaxError(c) \/ (~tsconfig.skipLibCheck /\ isStatement(c))
  ELSE syntaxError(c) \/ undefinedName(c)

\* ------------------------------------------------------ the per-file checks

extCjs == <<".", "cjs">>
extMjs == <<".", "mjs">>
extTs == <<".", "ts">>
extJson == <<".", "json">>
extMap == <<".", "map">>

\* the switch of lines 25-48: which check a file gets
checkForNoFallthrough(ext, esmNode) ==
  IF ext = extCjs THEN "require"
  ELSE IF ext = extMjs THEN "import"
  ELSE IF ext = extTs THEN "typecheck"
  ELSE IF ext = extJson \/ ext = extMap THEN "jsonparse"
  ELSE "readtext"

checkFor(ext, esmNode) ==
  IF ext = extCjs THEN "require"
  ELSE IF ext = extMjs THEN (IF esmNode THEN "import" ELSE "typecheck")
  ELSE IF ext = extTs THEN "typecheck"
  ELSE IF ext = extJson THEN "jsonparse"
  ELSE IF ext = extMap THEN "jsonparse"
  ELSE "readtext"

\* validateTypeScriptFile (lines 96-118): throws when the program built from
\* the one root file has semantic or syntactic diagnostics.  A root file that
\* cannot be read is no source file of the program: the compiler reports it
\* among the program's global diagnostics, which line 108 does not collect.
validateTypeScriptFile(d, p) ==
  IF kindOf(d, p) # "file" THEN "none"
  ELSE IF hasDiagnostics(p, entryAt(d, p).content) THEN "diagnostics"
  ELSE "none"

\* the error a check throws on a path, "none" when it passes
errorOf(check, d, p) ==
  LET e == entryAt(d, p) IN
  IF check \in {"require", "import"} THEN
    (IF e.kind # "file" THEN "module not found"
     ELSE IF ~loads(e.content) THEN "load error" ELSE "none")
  ELSE IF check = "typecheck" THEN validateTypeScriptFile(d, p)
  ELSE IF check = "jsonparse" THEN
    (IF e.kind # "file" THEN "read error"
     ELSE IF ~jsonParses(e.content) THEN "parse error" ELSE "none")
  ELSE
    (IF e.kind # "file" THEN "read error"
     ELSE IF trimIsEmpty(e.content) THEN "empty file" ELSE "none")

\* ---------------------------------------------------------------- manifest
\* A field of the manifest is a string or is absent (undefined).

Undefined == [t |-> "undefined"]
Str(p) == [t |-> "string", v |-> p]
Cond(i, r) == [t |-> "object", import |-> i, require |-> r]
Keys(vals) == [t |-> "object", v |-> vals]       \* exports: its values in key order
isUndefined(f) == f.t = "undefined"

\* access(join(pkgDir, path)) of line 149 resolves: the path exists
accessOk(d, path) == kindOf(d, join(pkgDir, path.v)) # "none"

\* ------------------------------------------------------------------ actions
\* pc is the stage the run is in or ended in: "load", "files", "entry" (main,
\* module, types), "exports", "scan", "report", and "end" after the success
\* line.  process.exit(1) and a throw out of validateBuild end the run where
\* it stands.

pkgPath == join(pkgDir, nPkg)

Exit1(report) ==
  /\ stderr' = Append(stderr, report)
  /\ outcome' = "exit1"

Reject ==
  /\ outcome' = "rejected"
  /\ UNCHANGED stderr

\* lines 14-18: read and parse package.json, derive expectedFiles.  A missing
\* or malformed manifest throws out of validateBuild.
ReadManifest ==
  /\ pc = "load"
  /\ outcome = "running"
  /\ IF kindOf(disk, pkgPath) # "file" \/ ~jsonParses(entryAt(disk, pkgPath).content)
       THEN Reject /\ UNCHANGED <<pc, expectedFiles>>
       ELSE /\ expectedFiles' = [i \in DOMAIN manifest.files |-> join(pkgDir, manifest.files[i])]
            /\ pc' = "files"
            /\ UNCHANGED <<outcome, stderr>>
  /\ UNCHANGED <<config, tsconfig, disk, manifest, idx, applied, inflight, accessed,
                 allFiles, stdout>>

\* one iteration of the loop of lines 20-55 without the process.exit(1) of
\* line 53
CheckFileNoExit ==
  /\ pc = "files"
  /\ outcome = "running"
  /\ idx <= Len(expectedFiles)
  /\ LET filePath == expectedFiles[idx]
         check == checkFor(extname(filePath), config.esmNode)
         err == errorOf(check, disk, filePath)
     IN /\ applied' = Append(applied, [path |-> filePath, check |-> check, err |-> err])
        /\ idx' = idx + 1
        /\ stderr' = IF err = "none" THEN stderr
                     ELSE Append(stderr, [kind |-> "file", path |-> filePath, err |-> err])
  /\ UNCHANGED <<config, tsconfig, disk, manifest, pc, outcome, expectedFiles, inflight,
                 accessed, allFiles, stdout>>

\* one iteration of the loop of lines 20-55
CheckFile ==
  /\ pc = "files"
  /\ outcome = "running"
  /\ idx <= Len(expectedFiles)
  /\ LET filePath == expectedFiles[idx]
         check == checkFor(extname(filePath), config.esmNode)
         err == errorOf(check, disk, filePath)
     IN /\ applied' = Append(applied, [path |-> filePath, check |-> check, err |-> err])
        /\ IF err = "none"
             THEN idx' = idx + 1 /\ UNCHANGED <<outcome, stderr>>
             ELSE Exit1([kind |-> "file", path |-> filePath, err |-> err]) /\ UNCHANGED idx
  /\ UNCHANGED <<config, tsconfig, disk, manifest, pc, expectedFiles, inflight, accessed,
                 allFiles, stdout>>

\* validatePath up to its await (lines 148-149): join throws on a path that
\* is not a string, which the catch of line 150 turns into process.exit(1)
\* at once; otherwise access() is in flight.
\* startAll starts the calls of `calls` in order, stopping at the first exit.
RECURSIVE startAll(_, _)
startAll(calls, acc) ==
  IF calls = <<>> THEN [exit |-> FALSE, started |-> acc]
  ELSE IF isUndefined(Head(calls).path)
    THEN [exit |-> TRUE, started |-> Append(acc, Head(calls))]
  ELSE startAll(Tail(calls), Append(acc, Head(calls)))

\* the started calls that wait on access(): all but one that exited
waiting(r) ==
  {r.started[i] : i \in {j \in DOMAIN r.started : ~isUndefined(r.started[j].path)}}

Start(calls) ==
  LET r == startAll(calls, <<>>) IN
  /\ accessed' = accessed \o [i \in DOMAIN r.started |-> r.started[i].path]
  /\ inflight' = waiting(r)
  /\ IF r.exit
       THEN Exit1([kind |-> "path", path |-> Undefined])
       ELSE UNCHANGED <<outcome, stderr>>

entryCalls ==
  << [key |-> 1, part |-> "main", path |-> manifest.main],
     [key |-> 2, part |-> "module", path |-> manifest.module],
     [key |-> 3, part |-> "types", path |-> manifest.types] >>

\* the first call an exports entry makes (lines 136-140), and a variant that
\* checks the require half first
firstCallRequire(k) ==
  LET val == manifest.exports.v[k] IN
  IF val.t = "string" THEN [key |-> k, part |-> "string", path |-> val]
  ELSE [key |-> k, part |-> "import", path |-> val.require]

firstCall(k) ==
  LET val == manifest.exports.v[k] IN
  IF val.t = "string" THEN [key |-> k, part |-> "string", path |-> val]
  ELSE [key |-> k, part |-> "import", path |-> val.import]

exportCalls == [k \in DOMAIN manifest.exports.v |-> firstCall(k)]

\* lines 126-130 entered while the loop of line 20 may still have files left
LaunchEntryEarly ==
  /\ pc = "files"
  /\ outcome = "running"
  /\ Start(entryCalls)
  /\ pc' = "entry"
  /\ UNCHANGED <<config, tsconfig, disk, manifest, expectedFiles, idx, applied, allFiles, stdout>>

\* lines 126-130, entered once the loop is over: the three calls start together
LaunchEntry ==
  /\ pc = "files"
  /\ outcome = "running"
  /\ idx > Len(expectedFiles)
  /\ Start(entryCalls)
  /\ pc' = "entry"
  /\ UNCHANGED <<config, tsconfig, disk, manifest, expectedFiles, idx, applied, allFiles, stdout>>

\* lines 132-144, entered once the three calls have resolved: one task per
\* key of exports.  Object.keys throws on an absent exports.
LaunchExports ==
  /\ pc = "entry"
  /\ outcome = "running"
  /\ inflight = {}
  /\ IF isUndefined(manifest.exports)
       THEN Reject /\ UNCHANGED <<inflight, accessed>>
       ELSE Start(exportCalls)
  /\ pc' = "exports"
  /\ UNCHANGED <<config, tsconfig, disk, manifest, expectedFiles, idx, applied, allFiles, stdout>>

\* the require half of line 141, started when the import half has resolved
requireCall(t) ==
  [key |-> t.key, part |-> "require", path |-> manifest.exports.v[t.key].require]

\* lines 149-156 without line 141: the require half is never checked
AccessDoneNoRequire(t) ==
  /\ pc \in {"entry", "exports"}
  /\ outcome = "running"
  /\ t \in inflight
  /\ inflight' = inflight \ {t}
  /\ IF ~accessOk(disk, t.path)
       THEN Exit1([kind |-> "path", path |-> t.path])
       ELSE UNCHANGED <<outcome, stderr>>
  /\ UNCHANGED <<config, tsconfig, disk, manifest, pc, expectedFiles, idx, applied, accessed,
                 allFiles, stdout>>

\* the access() of one call settles (lines 149-156).  A failure prints the
\* path and exits, whatever else is in flight; a success of the import half
\* of a conditional export goes on to the require half (line 141).
AccessDone(t) ==
  /\ pc \in {"entry", "exports"}
  /\ outcome = "running"
  /\ t \in inflight
  /\ IF ~accessOk(disk, t.path)
       THEN /\ Exit1([kind |-> "path", path |-> t.path])
            /\ inflight' = inflight \ {t}
            /\ UNCHANGED accessed
       ELSE IF t.part = "import"
         THEN /\ accessed' = Append(accessed, requireCall(t).path)
              /\ IF isUndefined(requireCall(t).path)
                   THEN /\ Exit1([kind |-> "path", path |-> Undefined])
                        /\ inflight' = inflight \ {t}
                   ELSE /\ inflight' = (inflight \ {t}) \cup {requireCall(t)}
                        /\ UNCHANGED <<outcome, stderr>>
         ELSE /\ inflight' = inflight \ {t}
              /\ UNCHANGED <<outcome, stderr, accessed>>
  /\ UNCHANGED <<config, tsconfig, disk, manifest, pc, expectedFiles, idx, applied, allFiles, stdout>>

SomeAccessDone == \E t \in inflight : AccessDone(t)

\* lines 59-74, entered once every exports task has resolved.  getFiles fills
\* allFiles in place (line 68), so when it throws at line 70 allFiles keeps
\* the files collected up to there.
TreeScan ==
  /\ pc = "exports"
  /\ outcome = "running"
  /\ inflight = {}
  /\ LET r == getFiles(disk, pkgDir) IN
       /\ allFiles' = r.files
       /\ IF r.threw THEN Reject ELSE UNCHANGED <<outcome, stderr>>
  /\ pc' = "scan"
  /\ UNCHANGED <<config, tsconfig, disk, manifest, expectedFiles, idx, applied, inflight,
                 accessed, stdout>>

\* line 75
unexpectedFiles == SelectSeq(allFiles, LAMBDA f : f \notin Range(expectedFiles))

\* lines 75-89 reporting the first unexpected file only
ReportFirstOnly ==
  /\ pc = "scan"
  /\ outcome = "running"
  /\ IF Len(unexpectedFiles) > 0
       THEN /\ Exit1([kind |-> "unexpected", paths |-> <<unexpectedFiles[1]>>])
            /\ pc' = "report"
            /\ UNCHANGED stdout
       ELSE /\ stdout' = Append(stdout, "validated build")
            /\ outcome' = "returned"
            /\ pc' = "end"
            /\ UNCHANGED stderr
  /\ UNCHANGED <<config, tsconfig, disk, manifest, expectedFiles, idx, applied, inflight,
                 accessed, allFiles>>

\* lines 75-89
Report ==
  /\ pc = "scan"
  /\ outcome = "running"
  /\ IF Len(unexpectedFiles) > 0
       THEN /\ Exit1([kind |-> "unexpected", paths |-> unexpectedFiles])
            /\ pc' = "report"
            /\ UNCHANGED stdout
       ELSE /\ stdout' = Append(stdout, "validated build")
            /\ outcome' = "returned"
            /\ pc' = "end"
            /\ UNCHANGED stderr
  /\ UNCHANGED <<config, tsconfig, disk, manifest, expectedFiles, idx, applied, inflight,
                 accessed, allFiles>>

Next ==
  \/ ReadManifest
  \/ CheckFile
  \/ LaunchEntry
  \/ LaunchExports
  \/ SomeAccessDone
  \/ TreeScan
  \/ Report

\* ------------------------------------------------------------------- inputs
\* A file system is drawn as a record of what each modelled path holds; the
\* directory sub exists when it has a child or is drawn as an empty directory.

DiskOf(r) ==
  [p \in DiskPaths |->
     IF p = pkgDir THEN Dir
     ELSE IF p = pkgPath THEN r.pkg
     ELSE IF p = join(pkgDir, nCjs) THEN r.cjs
     ELSE IF p = join(pkgDir, nMjs) THEN r.mjs
     ELSE IF p = join(pkgDir, nDts) THEN r.dts
     ELSE IF p = join(pkgDir, nXyz) THEN r.xyz
     ELSE IF p = join(pkgDir, nTmp) THEN r.tmp
     ELSE IF p = join(pkgDir, nMap) THEN r.map
     ELSE IF p = join(pkgDir, nLog) THEN r.log
     ELSE IF p = join(pkgDir, nSock) THEN r.sock
     ELSE IF r.sub \/ r.map.kind # "none" \/ r.log.kind # "none" \/ r.sock.kind # "none"
       THEN Dir
     ELSE None]

SeqsUpTo(S, n) == UNION {[1..k -> S] : k \in 0..n}

PkgFile == File("{pkg}")

\* what a declared file may hold, and what an undeclared one may
Variants(n) ==
  IF n = nPkg THEN {PkgFile}
  ELSE IF n = nCjs THEN {None, File("{}"), File("ok")}
  ELSE IF n = nMjs THEN {None, File("{}"), File("{")}
  ELSE IF n = nDts THEN {None, File(""), File("{}"), File("{")}
  ELSE IF n = nXyz THEN {None, File(""), File("   "), File("ok")}
  ELSE {None, File("{}"), File("{")}

Plain(n) ==
  IF n = nPkg THEN {PkgFile}
  ELSE IF n = nXyz THEN {None, File("ok")}
  ELSE {None, File("{}")}

Holds(n, fl) == IF n \in Range(fl) THEN Variants(n) ELSE Plain(n)

DeclNames == {nPkg, nCjs, nMjs, nDts, nXyz, nMap}

Manifest(fl, ma, mo, ty, ex) ==
  [files |-> fl, main |-> ma, module |-> mo, types |-> ty, exports |-> ex]

ExportVals ==
  {Str(nPkg), Str(nMjs), Cond(Str(nMjs), Str(nPkg)), Cond(Str(nPkg), Str(nMjs))}

Fields == {Undefined, Str(nPkg), Str(nMjs)}

\* compiler options: the compiler's defaults, and a configuration that skips
\* the checking of declaration files and admits JavaScript roots
TsDefaults == [skipLibCheck |-> FALSE, allowJs |-> FALSE, checkJs |-> FALSE]
TsLax == [skipLibCheck |-> TRUE, allowJs |-> TRUE, checkJs |-> FALSE]

\* the state validateBuild starts in, given its inputs
Begin(esmNode, ts, m, d) ==
  /\ config = [esmNode |-> esmNode]
  /\ tsconfig = ts
  /\ disk = d
  /\ manifest = m
  /\ pc = "load"
  /\ outcome = "running"
  /\ expectedFiles = <<>>
  /\ idx = 1
  /\ applied = <<>>
  /\ inflight = {}
  /\ accessed = <<>>
  /\ allFiles = <<>>
  /\ stderr = <<>>
  /\ stdout = <<>>

\* package.json missing, a directory, malformed or empty
InitLoad ==
  \E e \in BOOLEAN,
     r \in [pkg : {None, Dir, File("{"), File("")}, cjs : {None, File("{}")},
            mjs : {None}, dts : {None}, xyz : {None}, tmp : {None}, map : {None},
            log : {None}, sock : {None}, sub : {FALSE}] :
    Begin(e, TsDefaults, Manifest(<<nPkg>>, Str(nPkg), Str(nPkg), Str(nPkg), Keys(<<>>)), DiskOf(r))

\* every `files` list up to MaxFiles names, over every state of the declared
\* files; the entry points all resolve.  The compiler options are read only
\* for a type-checked file, so they vary where the list names one.
InitFiles ==
  \E e \in BOOLEAN, fl \in SeqsUpTo(DeclNames, MaxFiles) :
    \E ts \in IF nDts \in Range(fl) \/ (~e /\ nMjs \in Range(fl))
                 THEN {TsDefaults, TsLax} ELSE {TsDefaults},
       r \in [pkg : {PkgFile}, cjs : Holds(nCjs, fl), mjs : Holds(nMjs, fl),
              dts : Holds(nDts, fl), xyz : Holds(nXyz, fl), tmp : {None},
              map : Holds(nMap, fl), log : {None}, sock : {None}, sub : {FALSE}] :
      Begin(e, ts, Manifest(fl, Str(nPkg), Str(nPkg), Str(nPkg), Keys(<<>>)), DiskOf(r))

\* every shape of main, module, types and exports up to MaxExports keys, over
\* a target that exists (package.json) and one that may not (./core.mjs)
InitEntry ==
  \E e \in BOOLEAN,
     fl \in {<<nPkg>>, <<nPkg, nMjs>>},
     ma \in Fields, mo \in Fields, ty \in Fields,
     ex \in {Undefined} \cup {Keys(s) : s \in SeqsUpTo(ExportVals, MaxExports)},
     r \in [pkg : {PkgFile}, cjs : {None}, mjs : {None, File("{}")}, dts : {None},
            xyz : {None}, tmp : {None}, map : {None}, log : {None}, sock : {None},
            sub : {FALSE}] :
    Begin(e, TsDefaults, Manifest(fl, ma, mo, ty, ex), DiskOf(r))

\* every shape of the tree: stray files at both levels, an empty directory, a
\* socket
InitTree ==
  \E fl \in {<<nPkg>>, <<nPkg, nMap>>, <<nPkg, nLog, nMap>>},
     r \in [pkg : {PkgFile}, cjs : {None}, mjs : {None}, dts : {None}, xyz : {None},
            tmp : {None, File("ok")}, map : {None, File("{}")},
            log : {None, File(""), File("ok")}, sock : {None, Other}, sub : BOOLEAN] :
    Begin(TRUE, TsDefaults, Manifest(fl, Str(nPkg), Str(nPkg), Str(nPkg), Keys(<<>>)), DiskOf(r))

Init == InitLoad \/ InitFiles \/ InitEntry \/ InitTree

Spec == Init /\ [][Next]_vars

\* ------------------------------------------------------------------- claims
\* What the inputs of a run are, said without the run's own variables.

declared == [i \in DOMAIN manifest.files |-> join(pkgDir, manifest.files[i])]

ManifestBad ==
  kindOf(disk, pkgPath) # "file" \/ ~jsonParses(entryAt(disk, pkgPath).content)

\* the regular files under pkgDir
ActualFiles == {p \in DOMAIN disk : kindOf(disk, p) = "file"}

HasOther == \E p \in DOMAIN disk : kindOf(disk, p) = "other"

\* the error the i-th declared file's check ends in
declaredError(i) ==
  errorOf(checkFor(extname(declared[i]), config.esmNode), disk, declared[i])

FailingFiles == {i \in DOMAIN declared : declaredError(i) # "none"}

FirstFailing == CHOOSE i \in FailingFiles : \A j \in FailingFiles : i <= j

MissingDeclared == {i \in DOMAIN declared : kindOf(disk, declared[i]) = "none"}

\* C1: if a path declared in `files` does not exist on disk, the run reports
\* a file-validation failure for a declared path and exits non-zero before
\* the tree scan starts, and the success line is never printed.
C1_MissingDeclaredFailsBeforeScan ==
  (~ManifestBad /\ MissingDeclared # {}) =>
     /\ pc \in {"load", "files"}
     /\ stdout = <<>>
     /\ outcome \in {"running", "exit1"}
     /\ outcome = "exit1" =>
          /\ Len(stderr) = 1
          /\ stderr[1].kind = "file"
          /\ stderr[1].path \in Range(declared)

\* C8: whenever the success line is reached, the regular files under pkgDir
\* are exactly the declared set: every actual file is declared and every
\* declared path exists as a file.
C8_SuccessMeansExactlyDeclared ==
  outcome = "returned" => ActualFiles = Range(declared)

\* C5: declared files are checked one at a time in the order of `files`; the
\* first failing check prints that path and its error and exits non-zero, so
\* no later file is checked and no second failure is reported.
C5_SequentialFailFast ==
  /\ Len(applied) <= Len(expectedFiles)
  /\ \A k \in DOMAIN applied :
       /\ applied[k].path = declared[k]
       /\ applied[k].err # "none" =>
            /\ k = Len(applied)
            /\ k = FirstFailing
            /\ outcome = "exit1"
            /\ pc = "files"
            /\ stderr = << [kind |-> "file", path |-> declared[k], err |-> applied[k].err] >>
  /\ Cardinality({i \in DOMAIN stderr : stderr[i].kind = "file"}) <= 1
  /\ (~ManifestBad /\ FailingFiles # {}) =>
       /\ pc \in {"load", "files"}
       /\ Len(applied) <= FirstFailing

\* C5 witness: the first of two declared files failed its check; the second
\* would fail too and was never checked.
C5_Witness ==
  /\ Len(expectedFiles) = 2
  /\ FailingFiles = {1, 2}
  /\ outcome = "exit1"
  /\ Len(applied) = 1
  /\ stderr[1].path = declared[1]

\* the check the table of the file validator gives a declared path
tableCheck(p) ==
  IF p = join(pkgDir, nCjs) THEN "require"
  ELSE IF p = join(pkgDir, nMjs) THEN (IF config.esmNode THEN "import" ELSE "typecheck")
  ELSE IF p = join(pkgDir, nDts) THEN "typecheck"
  ELSE IF p \in {join(pkgDir, nPkg), join(pkgDir, nMap)} THEN "jsonparse"
  ELSE "readtext"

\* C9: the check a declared file gets depends on its extension and esmNode
\* only: .cjs is loaded; .mjs is imported when esmNode is true and
\* type-checked, not executed, when it is false; .ts is type-checked; .json
\* and .map are parsed as JSON; anything else is read as text and fails with
\* 'empty file' exactly when its content is empty or whitespace-only.  Each
\* file gets exactly one check.
C9_CheckByExtension ==
  /\ Len(applied) = (idx - 1) + (IF pc = "files" /\ outcome = "exit1" THEN 1 ELSE 0)
  /\ \A k \in DOMAIN applied :
       LET a == applied[k]
           e == entryAt(disk, a.path)
       IN /\ a.check = tableCheck(a.path)
          /\ a.check = "readtext" =>
               (a.err = "empty file" <=> (e.kind = "file" /\ e.content \in {"", "   "}))
          /\ (a.check = "readtext" /\ e.kind = "file" /\ e.content = "ok") => a.err = "none"
          /\ (a.check = "jsonparse" /\ e.kind = "file") =>
               (a.err = "none" <=> e.content \in {"{}", "{pkg}"})

\* C9 witness: with esmNode false a .mjs file got the type-check, and a
\* whitespace-only file of another extension failed as an empty file.
C9_Witness ==
  /\ ~config.esmNode
  /\ Len(applied) = 2
  /\ applied[1] = [path |-> join(pkgDir, nMjs), check |-> "typecheck", err |-> "none"]
  /\ applied[2] = [path |-> join(pkgDir, nXyz), check |-> "readtext", err |-> "empty file"]

\* ---- the entry points of the manifest

entryFields == <<manifest.main, manifest.module, manifest.types>>

resolves(f) == ~isUndefined(f) /\ accessOk(disk, f)

AbsentFields == {i \in 1..3 : isUndefined(entryFields[i])}

EntryFieldsResolve == \A i \in 1..3 : resolves(entryFields[i])

exportKeys == IF isUndefined(manifest.exports) THEN {} ELSE DOMAIN manifest.exports.v

targetsOf(k) ==
  LET val == manifest.exports.v[k] IN
  IF val.t = "string" THEN <<val>> ELSE <<val.import, val.require>>

ExportsResolve ==
  /\ ~isUndefined(manifest.exports)
  /\ \A k \in exportKeys : \A i \in DOMAIN targetsOf(k) : resolves(targetsOf(k)[i])

AllFilesPass == ~ManifestBad /\ FailingFiles = {}

Unexpected == ActualFiles \ Range(declared)

ChecksPass == AllFilesPass /\ EntryFieldsResolve /\ ExportsResolve

\* C2: when every declared file passes and every entry point resolves: if the
\* regular files under pkgDir that are not declared are not none, one report
\* lists every one of them and the process exits non-zero; if there are none,
\* the run prints the success line and ends with exit code 0.
C2_UnexpectedReportedElseSuccess ==
  (ChecksPass /\ outcome # "running") =>
     IF Unexpected # {}
       THEN /\ outcome = "exit1"
            /\ Len(stderr) = 1
            /\ stderr[1].kind = "unexpected"
            /\ Range(stderr[1].paths) = Unexpected
       ELSE /\ outcome = "returned"
            /\ stdout = <<"validated build">>
            /\ stderr = <<>>

\* C2 as amended: the same, provided the tree under pkgDir holds no entry that
\* is neither a file nor a directory; when it holds one, the scan throws and
\* the run ends with neither the report nor the success line.
C2_ScanOutcome ==
  /\ (ChecksPass /\ outcome # "running") =>
       IF HasOther
         THEN outcome = "rejected" /\ pc = "scan" /\ stderr = <<>> /\ stdout = <<>>
       ELSE IF Unexpected # {}
         THEN /\ outcome = "exit1"
              /\ pc = "report"
              /\ stdout = <<>>
              /\ Len(stderr) = 1
              /\ stderr[1].kind = "unexpected"
              /\ Range(stderr[1].paths) = Unexpected
       ELSE /\ outcome = "returned"
            /\ stdout = <<"validated build">>
            /\ stderr = <<>>
  /\ (ChecksPass /\ outcome = "running") => ENABLED Next

\* C2 witness: two stray files, one of them in a subdirectory, reported in
\* one block.
C2_Witness ==
  /\ ChecksPass
  /\ outcome = "exit1"
  /\ stderr[1].kind = "unexpected"
  /\ Len(stderr[1].paths) >= 2
  /\ join(pkgDir, nMap) \in Range(stderr[1].paths)

\* C3: main, module and types are optional: an absent one is skipped, with no
\* existence check and no error for it, so a manifest lacking one still
\* reaches the success line when everything else is valid.
C3_AbsentFieldSkipped ==
  /\ \A i \in DOMAIN stderr : ~(stderr[i].kind = "path" /\ isUndefined(stderr[i].path))
  /\ ( /\ AllFilesPass
       /\ \A i \in 1..3 : isUndefined(entryFields[i]) \/ resolves(entryFields[i])
       /\ ExportsResolve
       /\ ~HasOther
       /\ Unexpected = {}
       /\ outcome # "running" ) => outcome = "returned"

\* C4: every error kind (manifest missing or unparseable, a declared file
\* failing its check, an entry-point path not existing, unexpected files, an
\* entry that is neither file nor directory) ends the run by printing
\* diagnostic context and exiting non-zero; none reaches the success line.
C4_EveryErrorPrintsAndExits ==
  outcome \notin {"running", "returned"} =>
     outcome = "exit1" /\ Len(stderr) >= 1 /\ stdout = <<>>

EntryPathMissing ==
  /\ AbsentFields = {}
  /\ \/ \E i \in 1..3 : ~resolves(entryFields[i])
     \/ /\ ~isUndefined(manifest.exports)
        /\ \E k \in exportKeys : \E i \in DOMAIN targetsOf(k) : ~resolves(targetsOf(k)[i])

\* C4 as amended: no error kind is recovered and none reaches the success
\* line.  A failing declared file, a missing entry-point path and unexpected
\* files each print one error block and exit non-zero; a missing or
\* unparseable manifest and an entry that is neither file nor directory
\* instead throw out of validateBuild, which prints nothing and does not
\* exit by itself.
C4_ErrorKinds ==
  /\ outcome = "returned" <=> stdout # <<>>
  /\ outcome = "returned" => stderr = <<>>
  /\ outcome = "exit1" => Len(stderr) = 1 /\ stdout = <<>>
  /\ outcome = "rejected" => stderr = <<>> /\ stdout = <<>>
  /\ ManifestBad =>
       pc = "load" /\ outcome \in {"running", "rejected"}
  /\ (~ManifestBad /\ FailingFiles # {}) =>
       /\ pc \in {"load", "files"}
       /\ outcome \in {"running", "exit1"}
       /\ outcome = "exit1" => stderr[1].kind = "file"
  /\ (AllFilesPass /\ EntryPathMissing) =>
       /\ pc \in {"load", "files", "entry", "exports"}
       /\ outcome \in {"running", "exit1"}
       /\ outcome = "exit1" => stderr[1].kind = "path" /\ ~resolves(stderr[1].path)
  /\ (ChecksPass /\ HasOther) =>
       /\ pc \in {"load", "files", "entry", "exports", "scan"}
       /\ outcome \in {"running", "rejected"}
       /\ outcome = "rejected" => pc = "scan"
  /\ (ChecksPass /\ ~HasOther /\ Unexpected # {}) =>
       /\ outcome \in {"running", "exit1"}
       /\ outcome = "exit1" => pc = "report" /\ stderr[1].kind = "unexpected"

\* C4 witness: every check passed and the scan met a socket after it had
\* collected files: the run ended by a throw, with nothing printed.
C4_Witness ==
  /\ ChecksPass
  /\ HasOther
  /\ allFiles # <<>>
  /\ pc = "scan"
  /\ outcome = "rejected"
  /\ stderr = <<>>

\* every target of exports, in key order
RECURSIVE targetsFrom(_)
targetsFrom(k) ==
  IF k \notin exportKeys THEN <<>> ELSE targetsOf(k) \o targetsFrom(k + 1)

AllTargets == entryFields \o targetsFrom(1)

Count(q, x) == Cardinality({i \in DOMAIN q : q[i] = x})

\* the same elements, each as often
SameBag(a, b) ==
  /\ Len(a) = Len(b)
  /\ \A x \in Range(a) \cup Range(b) : Count(a, x) = Count(b, x)

WellFormed == AbsentFields = {} /\ ~isUndefined(manifest.exports)

firstTargets == [k \in exportKeys |-> targetsOf(k)[1]]

\* C6: all entry-point checks (main, module, types and every exports target,
\* both halves of a conditional export included) are launched together and
\* run concurrently; the first to fail reports its own path and exits without
\* waiting for a sibling.
C6_AllChecksLaunchedTogether ==
  (WellFormed /\ accessed # <<>>) => SameBag(accessed, AllTargets)

\* C6 as amended: the checks run in two waves.  main, module and types are
\* launched together; only when all three have resolved is one task per key
\* of exports launched, these together; within a conditional export the
\* require half is started only when the import half has resolved.  The first
\* check to fail reports its own path and exits without waiting for the
\* checks still in flight.
C6_TwoWaves ==
  /\ pc = "entry" =>
       /\ Len(accessed) <= 3
       /\ AbsentFields = {} => accessed = entryFields
       /\ \A t \in inflight : t.part \in {"main", "module", "types"}
  /\ pc = "exports" =>
       /\ EntryFieldsResolve
       /\ ~isUndefined(manifest.exports) =>
            /\ Len(accessed) >= 3 + Len(firstTargets)
            /\ SubSeq(accessed, 1, 3 + Len(firstTargets)) = entryFields \o firstTargets
  /\ \A t \in inflight :
       /\ t.part = "require" =>
            /\ resolves(manifest.exports.v[t.key].import)
            /\ t.path = manifest.exports.v[t.key].require
       /\ t.part = "import" => t.path = manifest.exports.v[t.key].import
       /\ \A u \in inflight : u.key = t.key => u = t
  /\ (pc \in {"entry", "exports"} /\ outcome = "exit1") =>
       /\ Len(stderr) = 1
       /\ stderr[1].kind = "path"
       /\ ~resolves(stderr[1].path)
       /\ \E i \in DOMAIN accessed : accessed[i] = stderr[1].path
       /\ \A t \in inflight : t.path \in Range(accessed)

\* C6 witness: two exports tasks were in flight; one failed and the process
\* exited with the other still in flight, its require half never started.
C6_Witness ==
  /\ pc = "exports"
  /\ outcome = "exit1"
  /\ Len(firstTargets) = 2
  /\ \E t \in inflight : t.part = "import"
  /\ Len(accessed) = 5

\* C7: for a conditional export whose import target is missing and whose
\* require target exists, the run fails with a non-zero exit code and the
\* path reported is the missing import path, never the existing require
\* path; every exports entry has each of its targets checked, so the success
\* line is reached only if every string target and both halves of every
\* conditional export exist.
C7_ExportTargetsChecked ==
  /\ pc \in {"scan", "report", "end"} => ExportsResolve
  /\ outcome = "returned" =>
       /\ \A k \in exportKeys : \A i \in DOMAIN targetsOf(k) : resolves(targetsOf(k)[i])
       /\ \A k \in exportKeys : \A i \in DOMAIN targetsOf(k) :
            \E j \in DOMAIN accessed : j > 3 /\ accessed[j] = targetsOf(k)[i]
  /\ (pc = "exports" /\ outcome = "exit1") =>
       /\ stderr[1].kind = "path"
       /\ ~accessOk(disk, stderr[1].path)
       /\ \E k \in exportKeys : \E i \in DOMAIN targetsOf(k) : stderr[1].path = targetsOf(k)[i]
  /\ \A k \in exportKeys :
       LET val == manifest.exports.v[k] IN
       ( /\ val.t = "object"
         /\ ~accessOk(disk, val.import)
         /\ accessOk(disk, val.require)
         /\ pc = "exports"
         /\ outcome # "running" ) =>
            /\ outcome = "exit1"
            /\ stderr[1].path # val.require
            /\ (\A j \in exportKeys \ {k} : \A i \in DOMAIN targetsOf(j) :
                   resolves(targetsOf(j)[i])) => stderr[1].path = val.import

\* C7 witness: the one conditional export has a missing import target and an
\* existing require target, and the run exited reporting the import path.
C7_Witness ==
  /\ pc = "exports"
  /\ outcome = "exit1"
  /\ manifest.exports = Keys(<< Cond(Str(nMjs), Str(nPkg)) >>)
  /\ ~accessOk(disk, Str(nMjs))
  /\ stderr = << [kind |-> "path", path |-> Str(nMjs)] >>

\* C10: the stages are strictly ordered: no entry-point check starts until
\* every declared file has passed its check, the tree scan does not start
\* until every entry-point check has resolved, the success line is printed
\* only after the scan found no unexpected file, and a failure in a stage
\* means no later stage does anything.
C10_StagesInOrder ==
  /\ accessed # <<>> =>
       /\ Len(applied) = Len(declared)
       /\ \A k \in DOMAIN applied : applied[k].path = declared[k] /\ applied[k].err = "none"
  /\ pc \in {"scan", "report", "end"} =>
       /\ inflight = {}
       /\ SameBag(accessed, AllTargets)
       /\ \A i \in DOMAIN accessed : resolves(accessed[i])
  /\ allFiles # <<>> => pc \in {"scan", "report", "end"}
  /\ stdout # <<>> =>
       /\ pc = "end"
       /\ allFiles = getFiles(disk, pkgDir).files
       /\ Range(allFiles) \subseteq Range(declared)
  /\ outcome \in {"exit1", "rejected"} =>
       /\ stdout = <<>>
       /\ pc = "load" => applied = <<>> /\ accessed = <<>> /\ allFiles = <<>>
       /\ pc = "files" => accessed = <<>> /\ allFiles = <<>>
       /\ pc \in {"entry", "exports"} => allFiles = <<>>
       /\ Len(stderr) <= 1

\* C10 witness: a run that went through every stage: two declared files
\* checked, five entry-point checks resolved, the tree scanned, the success
\* line printed.
C10_Witness ==
  /\ outcome = "returned"
  /\ Len(applied) = 2
  /\ Len(accessed) >= 5
  /\ Len(allFiles) = 2
====
